---- MODULE Spec2Model ----
(***************************************************************************)
(* A model of the local RAG service's indexing and retrieval core:         *)
(*   - FAISSVectorStore (backend/app/rag/vector_store.py): the in-memory   *)
(*     index and metadata list, the two persisted artifacts, add, search,  *)
(*     delete, clear, construction/load;                                   *)
(*   - TextChunker (backend/app/rag/chunker.py): the sliding-window loop.  *)
(*                                                                         *)
(* Embeddings are 2-dimensional unit vectors with integer coordinates, so  *)
(* the squared L2 distances IndexFlatL2 reports (0, 2 or 4) and the scores *)
(* 1 - d/2 derived from them are exact integers.                           *)
(***************************************************************************)
EXTENDS Integers, Sequences, FiniteSets, TLC

\* ------------------------------------------------------------------ bounds
MaxVectors == 3
MaxBatch == 2
MaxTopK == 2
MaxTokens == 6
MaxWords == 8

\* ------------------------------------------------------------ input domains
\* Embeddings handed to add_vectors, and query embeddings handed to search.
Vecs == {<<1, 0>>, <<-1, 0>>}
Queries == {<<1, 0>>, <<0, 1>>, <<-1, 0>>}
Filenames == {"a.txt", "b.md"}

\* Chunk dicts as TextChunker.chunk_text builds them.
Chunks ==
  { [text |-> "a0", filename |-> "a.txt", file_type |-> "txt", chunk_index |-> 0, total_chunks |-> 2],
    [text |-> "a1", filename |-> "a.txt", file_type |-> "txt", chunk_index |-> 1, total_chunks |-> 2],
    [text |-> "b0", filename |-> "b.md", file_type |-> "md", chunk_index |-> 0, total_chunks |-> 1] }

RECURSIVE SeqsUpTo(_, _)
SeqsUpTo(S, n) ==
  IF n = 0 THEN {<<>>}
  ELSE LET shorter == SeqsUpTo(S, n - 1)
       IN shorter \cup {Append(s, x) : s \in {t \in shorter : Len(t) = n - 1}, x \in S}

EmbeddingBatches == SeqsUpTo(Vecs, MaxBatch)
MetadataBatches == SeqsUpTo(Chunks, MaxBatch)
TopKs == 1..MaxTopK

\* filter_filenames: None, or a list of filenames (its order and repeats do not
\* matter to `in`, so a list is modelled by the set of its elements).
NoFilter == [given |-> FALSE, names |-> {}]
FilterList(names) == [given |-> TRUE, names |-> names]
Filters == {NoFilter} \cup {FilterList(names) : names \in SUBSET Filenames}

\* A path at which no file exists.
NoFile == [exists |-> FALSE, data |-> <<>>]
File(data) == [exists |-> TRUE, data |-> data]
\* The arguments of a writer that is not inside a call.
NoArgs == [embeddings |-> <<>>, metadata_list |-> <<>>]
\* History value of a row that was added with no metadata dict at its position.
NoMeta == [text |-> "", filename |-> "", file_type |-> "", chunk_index |-> -1, total_chunks |-> -1]
\* The value of `ret` while no call's return value is outstanding.
Idle == [op |-> "idle"]

Writers == {1, 2}

\* ------------------------------------------------------------------- state
VARIABLES
  status,      \* "up": a store object exists; "down": process not running; "failed": __init__ raised
  index,       \* self.index: the rows of the IndexFlatL2, in insertion order
  metadata,    \* self.metadata
  disk_index,  \* contents of faiss.index, or NoFile
  disk_meta,   \* contents of metadata.pkl, or NoFile
  ret,         \* outcome of the call that has just returned (Idle once taken)
  pc,          \* per writer: position inside an add_vectors call executed statement by statement
  arg,         \* per writer: the arguments of that call
  overlapped,  \* history: some add_vectors call started while another was in progress
  chunker,     \* the TextChunker object's attributes
  run,         \* the chunk_text call in progress or just finished: its locals
  uploads,     \* the uploads directory: per file name its content, or NoFile
  llm_posts    \* the posts made to the generation service for the request being answered

vars == <<status, index, metadata, disk_index, disk_meta, ret, pc, arg, overlapped, chunker, run,
          uploads, llm_posts>>

storeVars == <<status, index, metadata, disk_index, disk_meta>>
chunkVars == <<chunker, run>>
apiVars == <<uploads, llm_posts>>
stepVars == <<pc, arg, overlapped, chunkVars, apiVars>>

\* ------------------------------------------------ the index (faiss wrapper)
\* A row of the index is the vector; `src` is a history field recording the
\* metadata dict the vector was passed together with (the index itself cannot
\* give it back: it is what position correspondence is checked against).
Row(v, m) == [vec |-> v, src |-> m]

\* self.index.add(embeddings): appends the rows in order.
IndexAdd(idx, embeddings, metadata_list) ==
  idx \o [i \in 1..Len(embeddings) |->
            Row(embeddings[i],
                IF i <= Len(metadata_list) THEN metadata_list[i] ELSE NoMeta)]

\* A variant that assigns the new list instead of extending the old one.
MetadataReplace(md, metadata_list) == metadata_list

\* self.metadata.extend(metadata_list)
MetadataExtend(md, metadata_list) == md \o metadata_list

\* self.index.ntotal
ntotal(idx) == Len(idx)

\* The attributes of a store object, before __init__ has assigned them.
Blank == [index |-> <<>>, metadata |-> <<>>]

\* A variant of _create_new_index that leaves self.metadata as it is.
CreateNewIndexKeepsMetadata(store) == [store EXCEPT !.index = <<>>]

\* _create_new_index on a store object: assigns a fresh empty index AND a
\* fresh empty metadata list (lines 57-58).
CreateNewIndex(store) == [store EXCEPT !.index = <<>>, !.metadata = <<>>]

\* faiss.write_index / pickle.dump: the artifact holds what was in memory.
WriteIndex(idx) == File(idx)
DumpMetadata(md) == File(md)

\* A variant of save() that writes the index artifact only.
SaveIndexOnly(disk, idx, md) == [disk EXCEPT !.index = WriteIndex(idx)]

\* save() run to completion on the storage directory `disk`: index artifact
\* first, metadata artifact second.
Save(disk, idx, md) ==
  LET afterIndex == [disk EXCEPT !.index = WriteIndex(idx)]
  IN [afterIndex EXCEPT !.metadata = DumpMetadata(md)]

\* A variant of the length check that rejects only too few embeddings.
LengthsDifferOneSided(embeddings, metadata_list) == Len(embeddings) < Len(metadata_list)

\* if embeddings.shape[0] != len(metadata_list): raise ValueError (line 83)
LengthsDiffer(embeddings, metadata_list) == Len(embeddings) # Len(metadata_list)

\* __init__ (lines 43-46) with _load_index: the index artifact decides; a
\* missing metadata artifact makes open() raise and construction fail.
Construct(dIndex, dMeta) ==
  IF ~dIndex.exists
  THEN [status |-> "up"] @@ CreateNewIndex(Blank)
  ELSE IF ~dMeta.exists
       THEN [status |-> "failed", index |-> dIndex.data, metadata |-> <<>>]
       ELSE [status |-> "up", index |-> dIndex.data, metadata |-> dMeta.data]

\* ------------------------------------------------------------------ search
\* Squared Euclidean distance, the metric IndexFlatL2 reports.
Dist2(u, v) == (u[1] - v[1]) * (u[1] - v[1]) + (u[2] - v[2]) * (u[2] - v[2])

\* self.index.search(query_vector, k): the k nearest rows as (distance, position)
\* pairs, nearest first, equal distances by position; slots beyond the number of
\* stored rows are filled with position -1.  Positions are 1-based here.
KNN(idx, q, k) ==
  LET n == Len(idx)
      d == [i \in 1..n |-> Dist2(idx[i].vec, q)]
      \* how many rows come before row i: the nearer ones, and the equally
      \* near ones at earlier positions
      before == [i \in 1..n |->
                   Cardinality({j \in 1..n : d[j] < d[i] \/ (d[j] = d[i] /\ j < i)})]
  IN [r \in 1..k |->
        IF r <= n
        THEN LET i == CHOOSE x \in 1..n : before[x] = r - 1
             IN [dist |-> d[i], idx |-> i]
        ELSE [dist |-> 4, idx |-> -1]]

\* similarity_score = 1.0 - (float(dist) / 2.0); dist is 0, 2 or 4 here.
SimilarityScore(dist) == 1 - (dist \div 2)

\* A variant of the truth test that only asks `is not None`.
TruthyNotNone(filter) == filter.given

\* `if filter_filenames and ...`: None and the empty list are both falsy.
Truthy(filter) == filter.given /\ filter.names # {}

Min(a, b) == IF a <= b THEN a ELSE b

\* A variant of the filter test with `in` for `not in`.
FilteredOutInverted(filter, meta) == Truthy(filter) /\ meta.filename \in filter.names

\* `if filter_filenames and metadata['filename'] not in filter_filenames: continue`
FilteredOut(filter, meta) == Truthy(filter) /\ meta.filename \notin filter.names

\* The candidate loop of search (lines 118-145), from candidate c on.
RECURSIVE SearchLoop(_, _, _, _, _, _)
SearchLoop(cands, c, md, filter, top_k, results) ==
  IF c > Len(cands) THEN [error |-> "none", results |-> results]
  ELSE IF cands[c].idx = -1 THEN SearchLoop(cands, c + 1, md, filter, top_k, results)
  ELSE IF cands[c].idx > Len(md) THEN [error |-> "IndexError", results |-> <<>>]
  ELSE LET meta == md[cands[c].idx]
       IN IF FilteredOut(filter, meta)
          THEN SearchLoop(cands, c + 1, md, filter, top_k, results)
          ELSE LET more == Append(results,
                             [text |-> meta.text, filename |-> meta.filename,
                              file_type |-> meta.file_type,
                              chunk_index |-> meta.chunk_index,
                              score |-> SimilarityScore(cands[c].dist)])
               IN IF Len(more) >= top_k
                  THEN [error |-> "none", results |-> more]
                  ELSE SearchLoop(cands, c + 1, md, filter, top_k, more)

\* A variant that asks for top_k neighbours, with no headroom for the filter.
RequestedNoHeadroom(top_k, n) == Min(top_k, n)

\* The number of neighbours search asks the index for (line 116).
Requested(top_k, n) == Min(top_k * 2, n)

\* A variant of the emptiness test that never takes the early return.
StoreIsEmptyNever(idx) == FALSE

\* `if self.index.ntotal == 0: return []` (lines 108-109)
StoreIsEmpty(idx) == ntotal(idx) = 0

\* FAISSVectorStore.search on a store holding (idx, md).  The index's search
\* refuses a request for k < 1 neighbours with an AssertionError, which is
\* what line 116 would ask for on an empty index.
SearchStore(idx, md, q, top_k, filter) ==
  IF StoreIsEmpty(idx) THEN [error |-> "none", results |-> <<>>]
  ELSE IF Requested(top_k, ntotal(idx)) < 1
       THEN [error |-> "AssertionError", results |-> <<>>]
  ELSE SearchLoop(KNN(idx, q, Requested(top_k, ntotal(idx))), 1, md, filter, top_k, <<>>)

\* get_all_filenames
AllFilenames(md) == {md[i].filename : i \in 1..Len(md)}

\* ------------------------------------------------- delete_by_filename parts
\* indices_to_keep (lines 159-160)
IndicesToKeep(md, filename) == {i \in 1..Len(md) : md[i].filename # filename}

\* new_metadata (line 167): the kept entries in their original order.
NewMetadata(md, filename) == SelectSeq(md, LAMBDA m : m.filename # filename)

\* Lines 174-175: self.metadata = new_metadata, then _create_new_index(), which
\* assigns self.index AND self.metadata again.
AfterDelete(idx, md, filename) ==
  LET assigned == [index |-> idx, metadata |-> NewMetadata(md, filename)]
  IN CreateNewIndex(assigned)

\* ------------------------------------------------------------ TextChunker
\* chunker = TextChunker(chunk_size=500, overlap=100) in main.py
DefaultChunkSize == 500
DefaultOverlap == 100

\* int(tokens * 0.75): the product is exact here, int() truncates toward zero.
WordsFor(tokens) ==
  IF tokens >= 0 THEN (tokens * 3) \div 4 ELSE -((-tokens * 3) \div 4)

\* TextChunker.__init__ (lines 31-35): stores what it is given; it raises on
\* no configuration.
NewChunker(chunk_size, overlap) ==
  [chunk_size |-> chunk_size, overlap |-> overlap,
   words_per_chunk |-> WordsFor(chunk_size), words_overlap |-> WordsFor(overlap)]

\* A text is a sequence of tokens: a word (one token per word, always separated
\* from the next word by whitespace) or a whitespace character.
IsSpace(tok) == tok \in {" ", "\n"}

\* A variant of _clean_text without the strip().
CleanTextNoStrip(text) ==
  LET positions == [i \in 1..Len(text) |-> i]
      kept == SelectSeq(positions,
                LAMBDA i : ~IsSpace(text[i]) \/ i = 1 \/ ~IsSpace(text[i - 1]))
  IN [k \in 1..Len(kept) |-> IF IsSpace(text[kept[k]]) THEN " " ELSE text[kept[k]]]

\* _clean_text: re.sub(r'\s+', ' ', text) then strip().
CleanText(text) ==
  LET positions == [i \in 1..Len(text) |-> i]
      \* a run of whitespace is replaced by one space, put where the run starts
      kept == SelectSeq(positions,
                LAMBDA i : ~IsSpace(text[i]) \/ i = 1 \/ ~IsSpace(text[i - 1]))
      collapsed == [k \in 1..Len(kept) |->
                      IF IsSpace(text[kept[k]]) THEN " " ELSE text[kept[k]]]
      n == Len(collapsed)
      first == IF n >= 1 /\ collapsed[1] = " " THEN 2 ELSE 1
      last == IF n >= 1 /\ collapsed[n] = " " THEN n - 1 ELSE n
  IN SubSeq(collapsed, first, last)

\* text.split()
Split(text) == SelectSeq(text, LAMBDA tok : ~IsSpace(tok))

\* ' '.join(chunk_words)
JoinSpaces(ws) ==
  [i \in 1..(IF Len(ws) = 0 THEN 0 ELSE 2 * Len(ws) - 1) |->
     IF i % 2 = 1 THEN ws[(i + 1) \div 2] ELSE " "]

\* words[start:end] with Python's slice rules (0-based bounds, negative bounds
\* count from the end, everything clipped to the list).
PySlice(ws, start, end) ==
  LET n == Len(ws)
      Clip(i) == IF i < 0 THEN (IF i + n < 0 THEN 0 ELSE i + n)
                 ELSE (IF i > n THEN n ELSE i)
  IN SubSeq(ws, Clip(start) + 1, Clip(end))

\* A variant of the advance that ignores the overlap.
NextStartNoOverlap(start_idx, c) == start_idx + c.words_per_chunk

\* start_idx += (self.words_per_chunk - self.words_overlap)   (line 84)
NextStart(start_idx, c) == start_idx + (c.words_per_chunk - c.words_overlap)

\* The dict appended per window (lines 75-81); total_chunks is None (-1 here)
\* until the backfill.
ChunkDict(text, filename, file_type, chunk_index, total_chunks) ==
  [text |-> text, filename |-> filename, file_type |-> file_type,
   chunk_index |-> chunk_index, total_chunks |-> total_chunks]

\* lines 92-94: every chunk's total_chunks becomes len(chunks).
Backfill(chunks) ==
  [i \in 1..Len(chunks) |-> [chunks[i] EXCEPT !.total_chunks = Len(chunks)]]

\* No chunk_text call has been made.
NoRun == [pc |-> "none", text |-> <<>>, words |-> <<>>, start_idx |-> 0, chunk_index |-> 0,
          chunks |-> <<>>]

\* ---------------------------------------------------------- uploaded files
\* The name of an uploaded file: a stem and an extension, file.filename being
\* stem.ext.
UploadNames ==
  {[stem |-> "a", ext |-> "txt"], [stem |-> "b", ext |-> "MD"], [stem |-> "c", ext |-> "exe"]}

FileName(name) == name.stem \o "." \o name.ext

\* Path(file.filename).suffix
Suffix(name) == "." \o name.ext

\* str.lower() on the suffixes of UploadNames.
Lower(suffix) == IF suffix = ".MD" THEN ".md" ELSE suffix

\* allowed_extensions (upload.py line 50)
AllowedExtensions == {".pdf", ".txt", ".md", ".markdown", ".docx"}

\* file_path.suffix.lstrip('.') (upload.py line 77)
FileTypeOf(name) == name.ext

\* The names a file can be saved under in the uploads directory.
SavedNames == {FileName(name) : name \in UploadNames}

\* ------------------------------------------------------------------- Init
Init ==
  /\ status = "up"
  /\ index = Construct(NoFile, NoFile).index
  /\ metadata = Construct(NoFile, NoFile).metadata
  /\ disk_index = NoFile
  /\ disk_meta = NoFile
  /\ ret = Idle
  /\ pc = [w \in Writers |-> "idle"]
  /\ arg = [w \in Writers |-> NoArgs]
  /\ overlapped = FALSE
  /\ chunker = NewChunker(DefaultChunkSize, DefaultOverlap)
  /\ run = NoRun
  /\ uploads = [f \in SavedNames |-> NoFile]
  /\ llm_posts = <<>>

\* ------------------------------------------- whole calls, one at a time
\* The storage directory after self.save() of (idx, md).
Saved(idx, md) ==
  LET disk == Save([index |-> disk_index, metadata |-> disk_meta], idx, md)
  IN /\ disk_index' = disk.index
     /\ disk_meta' = disk.metadata

\* add_vectors(embeddings, metadata_list), lines 83-93 with save() inlined.
AddVectors(embeddings, metadata_list) ==
  /\ status = "up" /\ ret = Idle
  /\ IF LengthsDiffer(embeddings, metadata_list)
     THEN /\ ret' = [op |-> "add_vectors", error |-> "ValueError",
                     n_embeddings |-> Len(embeddings), n_metadata |-> Len(metadata_list)]
          /\ UNCHANGED storeVars
     ELSE /\ Len(index) + Len(embeddings) <= MaxVectors
          /\ index' = IndexAdd(index, embeddings, metadata_list)
          /\ metadata' = MetadataExtend(metadata, metadata_list)
          /\ Saved(index', metadata')
          /\ ret' = [op |-> "add_vectors", error |-> "none",
                     n_embeddings |-> Len(embeddings), n_metadata |-> Len(metadata_list)]
          /\ UNCHANGED status
  /\ UNCHANGED stepVars

\* search(query_embedding, top_k, filter_filenames): reads only.
Search(q, top_k, filter) ==
  /\ status = "up" /\ ret = Idle
  /\ ret' = [op |-> "search", query |-> q, top_k |-> top_k, filter |-> filter,
             out |-> SearchStore(index, metadata, q, top_k, filter)]
  /\ UNCHANGED <<storeVars, stepVars>>

\* get_all_filenames()
GetAllFilenames ==
  /\ status = "up" /\ ret = Idle
  /\ ret' = [op |-> "get_all_filenames", out |-> AllFilenames(metadata)]
  /\ UNCHANGED <<storeVars, stepVars>>

\* delete_by_filename(filename), lines 159-181.
DeleteByFilename(filename) ==
  /\ status = "up" /\ ret = Idle
  /\ IF Cardinality(IndicesToKeep(metadata, filename)) = Len(metadata)
     THEN UNCHANGED storeVars
     ELSE /\ index' = AfterDelete(index, metadata, filename).index
          /\ metadata' = AfterDelete(index, metadata, filename).metadata
          /\ Saved(index', metadata')
          /\ UNCHANGED status
  /\ ret' = [op |-> "delete_by_filename", filename |-> filename]
  /\ UNCHANGED stepVars

\* clear()
Clear ==
  /\ status = "up" /\ ret = Idle
  /\ index' = CreateNewIndex([index |-> index, metadata |-> metadata]).index
  /\ metadata' = CreateNewIndex([index |-> index, metadata |-> metadata]).metadata
  /\ Saved(index', metadata')
  /\ ret' = [op |-> "clear"]
  /\ UNCHANGED <<status, stepVars>>

\* The process is restarted between calls: the store object is thrown away
\* and __init__ builds a new one from the storage directory.
Restart ==
  /\ status = "up" /\ ret = Idle
  /\ status' = Construct(disk_index, disk_meta).status
  /\ index' = Construct(disk_index, disk_meta).index
  /\ metadata' = Construct(disk_index, disk_meta).metadata
  /\ ret' = [op |-> "__init__"]
  /\ UNCHANGED <<disk_index, disk_meta, stepVars>>

\* The caller takes the return value; the next call can start.
Return ==
  /\ ret # Idle
  /\ ret' = Idle
  /\ llm_posts' = <<>>
  /\ UNCHANGED <<storeVars, pc, arg, overlapped, chunkVars, uploads>>

Next ==
  \/ \E e \in EmbeddingBatches, m \in MetadataBatches : AddVectors(e, m)
  \/ \E q \in Queries, k \in TopKs, f \in Filters : Search(q, k, f)
  \/ GetAllFilenames
  \/ \E f \in Filenames : DeleteByFilename(f)
  \/ Clear
  \/ Restart
  \/ Return

Spec == Init /\ [][Next]_vars

\* ------------------------- add_vectors statement by statement, per writer
\* embedder.embed_text(chunk_texts) as upload_file calls it (upload.py lines
\* 82-83): one vector per chunk text, a fixed function of the text.
EmbedText(text) == IF text = "a1" THEN <<-1, 0>> ELSE <<1, 0>>
EmbedChunks(chunks) == [i \in 1..Len(chunks) |-> EmbedText(chunks[i].text)]

\* Vectors that calls in progress have still to append.
RECURSIVE PendingRows(_)
PendingRows(ws) ==
  IF ws = {} THEN 0
  ELSE LET w == CHOOSE x \in ws : TRUE
       IN (IF pc[w] = "index_add" THEN Len(arg[w].embeddings) ELSE 0) + PendingRows(ws \ {w})

\* upload_file reaches vector_store.add_vectors(embeddings, chunks) (upload.py
\* line 89); the length check of line 83 passes, the embeddings being parallel
\* to the chunks.
BeginAdd(w, chunks) ==
  /\ status = "up" /\ pc[w] = "idle"
  /\ ~LengthsDiffer(EmbedChunks(chunks), chunks)
  /\ Len(index) + PendingRows(Writers) + Len(chunks) <= MaxVectors
  /\ pc' = [pc EXCEPT ![w] = "index_add"]
  /\ arg' = [arg EXCEPT ![w] = [embeddings |-> EmbedChunks(chunks), metadata_list |-> chunks]]
  /\ overlapped' = (overlapped \/ \E o \in Writers \ {w} : pc[o] # "idle")
  /\ UNCHANGED <<storeVars, ret, chunkVars, apiVars>>

\* line 87: self.index.add(embeddings)
StepIndexAdd(w) ==
  /\ status = "up" /\ pc[w] = "index_add"
  /\ index' = IndexAdd(index, arg[w].embeddings, arg[w].metadata_list)
  /\ pc' = [pc EXCEPT ![w] = "extend"]
  /\ UNCHANGED <<status, metadata, disk_index, disk_meta, ret, arg, overlapped, chunkVars, apiVars>>

\* line 90: self.metadata.extend(metadata_list)
StepExtend(w) ==
  /\ status = "up" /\ pc[w] = "extend"
  /\ metadata' = MetadataExtend(metadata, arg[w].metadata_list)
  /\ pc' = [pc EXCEPT ![w] = "write_index"]
  /\ UNCHANGED <<status, index, disk_index, disk_meta, ret, arg, overlapped, chunkVars, apiVars>>

\* line 70: faiss.write_index(self.index, ...)
StepWriteIndex(w) ==
  /\ status = "up" /\ pc[w] = "write_index"
  /\ disk_index' = WriteIndex(index)
  /\ pc' = [pc EXCEPT ![w] = "dump"]
  /\ UNCHANGED <<status, index, metadata, disk_meta, ret, arg, overlapped, chunkVars, apiVars>>

\* lines 71-72: pickle.dump(self.metadata, f); add_vectors returns.
StepDump(w) ==
  /\ status = "up" /\ pc[w] = "dump"
  /\ disk_meta' = DumpMetadata(metadata)
  /\ pc' = [pc EXCEPT ![w] = "idle"]
  /\ arg' = [arg EXCEPT ![w] = NoArgs]
  /\ UNCHANGED <<status, index, metadata, disk_index, ret, overlapped, chunkVars, apiVars>>

\* The process dies: everything in memory is gone, the artifacts stay.
Crash ==
  /\ status = "up"
  /\ status' = "down"
  /\ index' = <<>> /\ metadata' = <<>>
  /\ pc' = [w \in Writers |-> "idle"]
  /\ arg' = [w \in Writers |-> NoArgs]
  /\ UNCHANGED <<disk_index, disk_meta, ret, overlapped, chunkVars, apiVars>>

\* The process is started again: __init__ builds the store from the artifacts.
Boot ==
  /\ status = "down"
  /\ status' = Construct(disk_index, disk_meta).status
  /\ index' = Construct(disk_index, disk_meta).index
  /\ metadata' = Construct(disk_index, disk_meta).metadata
  /\ UNCHANGED <<disk_index, disk_meta, ret, stepVars>>

UploadBatches == MetadataBatches \ {<<>>}

\* Two requests whose add_vectors calls may overlap, with no lock.
NextConc ==
  \E w \in Writers :
    \/ \E chunks \in UploadBatches : BeginAdd(w, chunks)
    \/ StepIndexAdd(w)
    \/ StepExtend(w)
    \/ StepWriteIndex(w)
    \/ StepDump(w)

SpecConc == Init /\ [][NextConc]_vars

\* One request at a time, in a process that can die at any point.
NextCrash ==
  \/ \E chunks \in UploadBatches : BeginAdd(1, chunks)
  \/ StepIndexAdd(1)
  \/ StepExtend(1)
  \/ StepWriteIndex(1)
  \/ StepDump(1)
  \/ Crash
  \/ Boot

SpecCrash == Init /\ [][NextCrash]_vars

\* --------------------------------------------------- chunker inputs, steps
TokenCounts == 0..MaxTokens

\* The words of a document are numbered, so that a word identifies its position.
Words(n) == [i \in 1..n |-> ToString(i)]

\* n words separated by single spaces.
TidyDoc(n) == JoinSpaces(Words(n))

\* n words with leading, doubled and trailing whitespace.
MessyDoc(n) ==
  [i \in 1..(3 * n + 1) |->
     IF i = 3 * n + 1 THEN "\n"
     ELSE IF i % 3 = 1 THEN " "
     ELSE IF i % 3 = 2 THEN ToString((i + 1) \div 3)
     ELSE "\n"]

\* The 1000-word document of the end-to-end example.
ExampleDoc == TidyDoc(1000)

Documents == {TidyDoc(n) : n \in 0..MaxWords} \cup {MessyDoc(n) : n \in 0..MaxWords} \cup {ExampleDoc}

\* The model follows a chunk_text call for this many windows.
MaxChunks == MaxWords + 2

\* The file every chunk_text call of the model is made for.
DocName == "doc.txt"
DocType == "txt"

\* TextChunker(chunk_size, overlap): a new chunker replaces the current one.
ConstructChunker(chunk_size, overlap) ==
  /\ chunker' = NewChunker(chunk_size, overlap)
  /\ run' = NoRun
  /\ UNCHANGED <<storeVars, ret, pc, arg, overlapped, apiVars>>

\* chunk_text(text, filename, file_type) up to the loop (lines 49-67).
ChunkText(text) ==
  /\ run.pc # "loop"
  /\ LET cleaned == CleanText(text)
         words == Split(cleaned)
     IN run' = IF Len(words) <= chunker.words_per_chunk
               THEN [pc |-> "done", text |-> text, words |-> words, start_idx |-> 0,
                     chunk_index |-> 0,
                     chunks |-> <<ChunkDict(cleaned, DocName, DocType, 0, 1)>>]
               ELSE [pc |-> "loop", text |-> text, words |-> words, start_idx |-> 0,
                     chunk_index |-> 0, chunks |-> <<>>]
  /\ UNCHANGED <<chunker, storeVars, ret, pc, arg, overlapped, apiVars>>

\* One pass of `while start_idx < len(words)` (lines 69-89); when the loop is
\* left, the backfill and the return (lines 92-96).
ChunkLoop ==
  /\ run.pc = "loop"
  /\ Len(run.chunks) < MaxChunks
  /\ IF run.start_idx < Len(run.words)
     THEN LET end_idx == run.start_idx + chunker.words_per_chunk
              chunk_words == PySlice(run.words, run.start_idx, end_idx)
              appended == Append(run.chunks,
                            ChunkDict(JoinSpaces(chunk_words), DocName, DocType,
                                      run.chunk_index, -1))
              broke == end_idx >= Len(run.words)
          IN run' = [pc |-> IF broke THEN "done" ELSE "loop",
                     text |-> run.text,
                     words |-> run.words,
                     start_idx |-> NextStart(run.start_idx, chunker),
                     chunk_index |-> run.chunk_index + 1,
                     chunks |-> IF broke THEN Backfill(appended) ELSE appended]
     ELSE run' = [run EXCEPT !.pc = "done", !.chunks = Backfill(run.chunks)]
  /\ UNCHANGED <<chunker, storeVars, ret, pc, arg, overlapped, apiVars>>

NextChunk ==
  \/ \E cs \in TokenCounts, ov \in TokenCounts : ConstructChunker(cs, ov)
  \/ \E text \in Documents : ChunkText(text)
  \/ ChunkLoop

SpecChunk == Init /\ [][NextChunk]_vars

\* ------------------------------------------------------ the HTTP endpoints
\* str.strip(): the text without its leading and trailing whitespace.
StripEnds(text) ==
  LET solid == {i \in 1..Len(text) : ~IsSpace(text[i])}
  IN IF solid = {} THEN <<>>
     ELSE SubSeq(text, CHOOSE i \in solid : \A j \in solid : i <= j,
                       CHOOSE i \in solid : \A j \in solid : i >= j)

\* The characters of a text as one string.
RECURSIVE Concat(_)
Concat(text) == IF text = <<>> THEN "" ELSE Head(text) \o Concat(Tail(text))

\* The contents of the files that are uploaded: whitespace only, and two
\* words with whitespace around them.
UploadBodies == {<<" ", "\n">>, MessyDoc(2)}

\* FileProcessor.extract_text for the text formats: a .txt file is read as it
\* is; a markdown file without markup comes back as its paragraph, without
\* the whitespace around it.
ExtractText(name, content) ==
  IF Lower(Suffix(name)) = ".txt" THEN content ELSE StripEnds(content)

\* The while loop of chunk_text (lines 69-89) from start_idx on.
RECURSIVE ChunkWindows(_, _, _, _, _, _)
ChunkWindows(c, words, start_idx, chunk_index, filename, file_type) ==
  IF start_idx < Len(words)
  THEN LET end_idx == start_idx + c.words_per_chunk
           chunk == ChunkDict(JoinSpaces(PySlice(words, start_idx, end_idx)),
                              filename, file_type, chunk_index, -1)
       IN IF end_idx >= Len(words) THEN <<chunk>>
          ELSE <<chunk>> \o ChunkWindows(c, words, NextStart(start_idx, c),
                                         chunk_index + 1, filename, file_type)
  ELSE <<>>

\* chunker.chunk_text(text, filename, file_type) as one call.
ChunkTextCall(c, text, filename, file_type) ==
  LET cleaned == CleanText(text)
      words == Split(cleaned)
  IN IF Len(words) <= c.words_per_chunk
     THEN <<ChunkDict(cleaned, filename, file_type, 0, 1)>>
     ELSE Backfill(ChunkWindows(c, words, 0, 0, filename, file_type))

\* self.model.encode(text, normalize_embeddings=True): a unit vector that is
\* a fixed function of the text (here of the parity of its word count).
Encode(text) == IF Len(Split(text)) % 2 = 1 THEN <<1, 0>> ELSE <<-1, 0>>

\* embedder.embed_text(chunk_texts)
EmbedTexts(chunks) == [i \in 1..Len(chunks) |-> Encode(chunks[i].text)]

\* embedder.embed_query(question)
EmbedQuery(question) == Encode(question)

\* What can go wrong inside one upload: nothing, opening or writing the file
\* in the uploads directory, the extraction, the embedding model, and the two
\* writes of save().
UploadFaults == {"none", "open", "copy", "extract", "embed", "write_index", "dump"}

\* The response of an endpoint: HTTPException(status_code, detail), or the
\* response model with status 200.
Response(op, status_code, detail, body) ==
  [op |-> op, status_code |-> status_code, detail |-> detail, body |-> body]

\* POST /upload (upload.py lines 49-97), with add_vectors and save() inlined.
UploadFile(name, content, fault) ==
  /\ status = "up" /\ ret = Idle
  /\ LET filename == FileName(name)
         text == ExtractText(name, content)
         file_type == FileTypeOf(name)
         chunks == ChunkTextCall(chunker, text, filename, file_type)
         embeddings == EmbedTexts(chunks)
         Request == [filename |-> filename, content |-> content]
     IN IF Lower(Suffix(name)) \notin AllowedExtensions
        THEN /\ ret' = Response("upload", 400, "Unsupported file type", Request)
             /\ UNCHANGED <<storeVars, uploads>>
        ELSE IF fault = "open"
        THEN /\ ret' = Response("upload", 500, "Failed to save file", Request)
             /\ UNCHANGED <<storeVars, uploads>>
        ELSE IF fault = "copy"
        THEN \* open(save_path, "wb") has truncated the file
             /\ ret' = Response("upload", 500, "Failed to save file", Request)
             /\ uploads' = [uploads EXCEPT ![filename] = File(<<>>)]
             /\ UNCHANGED storeVars
        ELSE /\ uploads' = [uploads EXCEPT ![filename] = File(content)]
             /\ IF fault = "extract"
                THEN /\ ret' = Response("upload", 500, "Failed to extract text", Request)
                     /\ UNCHANGED storeVars
                ELSE IF StripEnds(text) = <<>>
                THEN /\ ret' = Response("upload", 400, "No text content found in file",
                                        Request)
                     /\ UNCHANGED storeVars
                ELSE IF fault = "embed"
                THEN /\ ret' = Response("upload", 500, "Failed to embed text", Request)
                     /\ UNCHANGED storeVars
                ELSE IF LengthsDiffer(embeddings, chunks)
                THEN /\ ret' = Response("upload", 500, "Failed to store vectors", Request)
                     /\ UNCHANGED storeVars
                ELSE /\ Len(index) + Len(embeddings) <= MaxBatch
                     /\ index' = IndexAdd(index, embeddings, chunks)
                     /\ metadata' = MetadataExtend(metadata, chunks)
                     /\ UNCHANGED status
                     /\ IF fault = "write_index"
                        THEN /\ ret' = Response("upload", 500, "Failed to store vectors",
                                                Request)
                             /\ UNCHANGED <<disk_index, disk_meta>>
                        ELSE IF fault = "dump"
                        THEN /\ ret' = Response("upload", 500, "Failed to store vectors",
                                                Request)
                             /\ disk_index' = WriteIndex(index')
                             /\ UNCHANGED disk_meta
                        ELSE /\ Saved(index', metadata')
                             /\ ret' = Response("upload", 200, "",
                                          [filename |-> filename,
                                           chunks_created |-> Len(chunks),
                                           file_type |-> file_type])
  /\ UNCHANGED <<pc, arg, overlapped, chunkVars, llm_posts>>

\* The questions asked: whitespace only, one word, two words.
Questions == {<<" ">>, Words(1), TidyDoc(2)}

\* What the generation service does with a post: it answers with a status
\* code and a body, or requests raises a RequestException (connection
\* refused, timeout after 60 s).
LlmOutcomes ==
  {[raised |-> "none", status_code |-> 200, response |-> <<" ", "yes", "\n">>],
   [raised |-> "none", status_code |-> 503, response |-> <<>>],
   [raised |-> "ConnectionError", status_code |-> 0, response |-> <<>>],
   [raised |-> "Timeout", status_code |-> 0, response |-> <<>>]}

\* The generation call failed: no response, or a response that is not 2xx.
LlmFailed(outcome) ==
  outcome.raised # "none" \/ outcome.status_code < 200 \/ outcome.status_code > 299

\* _format_context (lines 105-117)
RECURSIVE ContextParts(_, _)
ContextParts(chunks, i) ==
  IF i > Len(chunks) THEN <<>>
  ELSE <<"[Source " \o ToString(i) \o ": " \o chunks[i].filename \o ", chunk "
           \o ToString(chunks[i].chunk_index) \o "]\n" \o Concat(chunks[i].text) \o "\n">>
       \o ContextParts(chunks, i + 1)

RECURSIVE JoinLines(_)
JoinLines(parts) ==
  IF parts = <<>> THEN ""
  ELSE IF Len(parts) = 1 THEN parts[1]
  ELSE parts[1] \o "\n" \o JoinLines(Tail(parts))

FormatContext(chunks) == JoinLines(ContextParts(chunks, 1))

\* PROMPT_TEMPLATE.format(context=..., question=...)
FormatPrompt(context, question) ==
  "Context information from documents:\n---\n" \o context
    \o "\n---\n\nQuestion: " \o Concat(question) \o "\n\nAnswer based on the context above:"

\* A variant of the fallback that answers with nothing.
FallbackAnswerEmpty(prompt) == ""

\* _fallback_answer (lines 162-173); the backquotes of the message are
\* written as apostrophes.
FallbackAnswer(prompt) ==
  "LLM service unavailable. Showing the retrieved context instead:\n\n" \o prompt
    \o "\n\nStart Ollama with 'ollama serve' and ensure the 'llama3.2' model is installed."

\* _generate_answer (lines 119-160), the service behaving as `outcome`.
GenerateAnswer(prompt, outcome) ==
  IF outcome.raised # "none" THEN FallbackAnswer(prompt)
  ELSE IF outcome.status_code = 200 THEN Concat(StripEnds(outcome.response))
  ELSE FallbackAnswer(prompt)

\* The answer of query when nothing was retrieved (line 86).
NoMatchAnswer == "No relevant information found in the indexed documents."

\* A variant of the no-match test that never holds.
NoChunksNever(retrieved_chunks) == FALSE

\* `if not retrieved_chunks` (line 84)
NoChunks(retrieved_chunks) == retrieved_chunks = <<>>

\* RAGPipeline.query (lines 74-103) on a store holding (idx, md): what it
\* returns or raises, and the posts it made to the generation service, each
\* with what the service did with it.
RagQuery(idx, md, question, top_k, active_files, outcome) ==
  LET found == SearchStore(idx, md, EmbedQuery(question), top_k, active_files)
      prompt == FormatPrompt(FormatContext(found.results), question)
  IN IF found.error # "none"
     THEN [error |-> found.error, answer |-> "", sources |-> <<>>, posts |-> <<>>]
     ELSE IF NoChunks(found.results)
     THEN [error |-> "none", answer |-> NoMatchAnswer, sources |-> <<>>, posts |-> <<>>]
     ELSE [error |-> "none", answer |-> GenerateAnswer(prompt, outcome),
           sources |-> found.results,
           posts |-> <<[prompt |-> prompt, outcome |-> outcome]>>]

\* SourceInfo(filename=, chunk=, score=, chunk_index=) per source (query.py 56-64)
SourceInfos(sources) ==
  [i \in 1..Len(sources) |->
     [filename |-> sources[i].filename, chunk |-> sources[i].text,
      score |-> sources[i].score, chunk_index |-> sources[i].chunk_index]]

\* POST /query (query.py lines 44-72).
QueryDocuments(question, top_k, active_files, outcome) ==
  /\ status = "up" /\ ret = Idle
  /\ LET result == RagQuery(index, metadata, question, top_k, active_files, outcome)
         Request == [question |-> question, top_k |-> top_k, active_files |-> active_files]
     IN IF StripEnds(question) = <<>>
        THEN /\ ret' = Response("query", 400, "Question cannot be empty", <<>>)
                          @@ [question |-> question]
             /\ llm_posts' = <<>>
        ELSE IF result.error # "none"
        THEN /\ ret' = Response("query", 500, "Query failed", <<>>) @@ Request
             /\ llm_posts' = result.posts
        ELSE /\ ret' = Response("query", 200, "",
                                 [answer |-> result.answer,
                                  sources |-> SourceInfos(result.sources)])
                          @@ Request
                          @@ [result |-> [answer |-> result.answer,
                                          sources |-> result.sources]]
             /\ llm_posts' = result.posts
  /\ UNCHANGED <<storeVars, pc, arg, overlapped, chunkVars, uploads>>

NextApi ==
  \/ \E name \in UploadNames, content \in UploadBodies, fault \in UploadFaults :
       UploadFile(name, content, fault)
  \/ \E question \in Questions, k \in TopKs, f \in Filters, outcome \in LlmOutcomes :
       QueryDocuments(question, k, f, outcome)
  \/ Return

SpecApi == Init /\ [][NextApi]_vars

\* ========================================================== store claims
\* Position i of the index holds the vector that was added with metadata[i].
Aligned(idx, md) ==
  /\ Len(idx) = Len(md)
  /\ \A i \in 1..Len(idx) : idx[i].src = md[i]

\* C1: in every reachable state of a store that went through any sequence of
\* construction/load, add_vectors, delete_by_filename and clear calls, the
\* index holds as many vectors as there are metadata entries, and the vector
\* at position i is the one that was added together with metadata[i].
C1_IndexMatchesMetadata == status = "up" => Aligned(index, metadata)

\* A full store with distinct entries that has just been loaded from disk.
C1_Witness ==
  /\ ret.op = "__init__"
  /\ Len(index) = MaxVectors
  /\ metadata[1] # metadata[2]
  /\ index[1].vec # index[2].vec

\* The two artifacts hold the same number of entries (and are both there or
\* both absent).
ArtifactsConsistent(dIndex, dMeta) ==
  /\ dIndex.exists = dMeta.exists
  /\ Len(dIndex.data) = Len(dMeta.data)

\* C2 (as claimed): wherever the process dies during add_vectors, the two
\* persisted artifacts hold the same number of entries, and the store that
\* __init__ builds from them afterwards satisfies the index/metadata invariant.
C2_CrashKeepsArtifactsConsistent ==
  /\ status = "down" => ArtifactsConsistent(disk_index, disk_meta)
  /\ (status # "down" /\ pc[1] = "idle") => (status = "up" /\ Aligned(index, metadata))

\* C3 (as claimed): delete_by_filename(f) removes exactly the entries of f: the
\* metadata afterwards is the metadata before without the entries of f, in the
\* same order, and get_all_filenames() is the previous set minus f.
C3_DeleteRemovesExactlyThatFile ==
  [][ret'.op = "delete_by_filename" =>
       /\ metadata' = NewMetadata(metadata, ret'.filename)
       /\ AllFilenames(metadata') = AllFilenames(metadata) \ {ret'.filename}]_vars

\* C4: once add_vectors has returned, the persisted artifacts hold the
\* in-memory index and metadata, and a store constructed from them answers every
\* search (query, top_k, filter) exactly as the store in memory does.
C4_RestartRoundTrip ==
  (ret.op = "add_vectors" /\ ret.error = "none") =>
    LET reloaded == Construct(disk_index, disk_meta)
    IN /\ reloaded.status = "up"
       /\ disk_index = File(index)
       /\ disk_meta = File(metadata)
       /\ \A q \in Queries, k \in TopKs, f \in Filters :
            SearchStore(reloaded.index, reloaded.metadata, q, k, f)
              = SearchStore(index, metadata, q, k, f)

\* add_vectors has just returned on a full store, some search of which returns
\* results with different scores.
C4_Witness ==
  /\ ret.op = "add_vectors" /\ ret.error = "none"
  /\ Len(index) = MaxVectors
  /\ \E q \in Queries, f \in Filters :
       LET r == SearchStore(index, metadata, q, MaxTopK, f).results
       IN Len(r) >= 2 /\ r[1].score # r[2].score

\* No add_vectors call is in progress.
AtRest == \A w \in Writers : pc[w] = "idle"

\* C5: without a lock the store is safe only for one writer at a time: whenever,
\* with no call in progress, the index and the metadata list (or the two
\* persisted artifacts) are out of step, two add_vectors calls have overlapped;
\* and such a state is reached (C5_Witness).
C5_MisalignmentComesFromOverlap ==
  (AtRest /\ ~(Aligned(index, metadata) /\ Aligned(disk_index.data, disk_meta.data)))
    => overlapped

\* Two overlapping add_vectors calls have both returned, and some position of
\* the index holds a vector whose metadata is at another position, in memory
\* and in the persisted artifacts.
C5_Witness ==
  /\ AtRest
  /\ Len(index) = Len(metadata)
  /\ \E i \in 1..Len(index) : index[i].src # metadata[i]
  /\ disk_index.exists /\ disk_meta.exists
  /\ Len(disk_index.data) = Len(disk_meta.data)
  /\ \E i \in 1..Len(disk_index.data) : disk_index.data[i].src # disk_meta.data[i]

\* C6: for top_k >= 1 and a non-empty filter set F, search returns at most
\* top_k results, all of a file in F, in descending order of score.
C6_FilteredSearchBounded ==
  (ret.op = "search" /\ ret.top_k >= 1 /\ ret.filter.given /\ ret.filter.names # {}) =>
    LET r == ret.out.results
    IN /\ Len(r) <= ret.top_k
       /\ \A i \in 1..Len(r) : r[i].filename \in ret.filter.names
       /\ \A i \in 1..Len(r) - 1 : r[i].score >= r[i + 1].score

\* A filtered search returned a chunk although a chunk of a file outside the
\* filter is strictly nearer to the query.
C6_Witness ==
  /\ ret.op = "search" /\ ret.filter.given /\ ret.filter.names # {}
  /\ Len(ret.out.results) >= 1
  /\ \E i \in 1..Len(index) :
       /\ metadata[i].filename \notin ret.filter.names
       /\ SimilarityScore(Dist2(index[i].vec, ret.query)) > ret.out.results[1].score

\* The result a candidate (distance, position) pair turns into.
ResultOf(cand, md) ==
  [text |-> md[cand.idx].text, filename |-> md[cand.idx].filename,
   file_type |-> md[cand.idx].file_type, chunk_index |-> md[cand.idx].chunk_index,
   score |-> SimilarityScore(cand.dist)]

\* The candidates that pass the filter (all of them when it is absent or empty).
Passing(cands, md, filter) ==
  SelectSeq(cands, LAMBDA c : (filter.given /\ filter.names # {}) => md[c.idx].filename \in filter.names)

\* C7: search returns exactly the first top_k, nearest first, of those among the
\* min(2*top_k, total_vectors) nearest neighbours that pass the filter; when
\* fewer than top_k pass, all of them, and no error.
C7_SearchIsFilteredPrefix ==
  ret.op = "search" =>
    LET n == Len(index)
        window == IF 2 * ret.top_k <= n THEN 2 * ret.top_k ELSE n
        passing == Passing(KNN(index, ret.query, window), metadata, ret.filter)
        count == IF Len(passing) <= ret.top_k THEN Len(passing) ELSE ret.top_k
    IN /\ ret.out.error = "none"
       /\ ret.out.results = [i \in 1..count |-> ResultOf(passing[i], metadata)]

\* A search returned fewer than top_k results although a chunk that passes the
\* filter is stored outside the window of 2*top_k nearest neighbours.
C7_Witness ==
  /\ ret.op = "search"
  /\ Len(ret.out.results) < ret.top_k
  /\ 2 * ret.top_k < Len(index)
  /\ \E i \in 1..Len(index) : metadata[i].filename \in ret.filter.names

\* C8: add_vectors with a number of embeddings different from the number of
\* metadata items fails and leaves index, metadata and both persisted artifacts
\* as they were.
C8_MismatchRejected ==
  [][(ret'.op = "add_vectors" /\ ret'.n_embeddings # ret'.n_metadata) =>
       /\ ret'.error = "ValueError"
       /\ UNCHANGED <<index, metadata, disk_index, disk_meta>>]_vars

\* A mismatched add_vectors call was rejected on a store that holds vectors.
C8_Witness ==
  /\ ret.op = "add_vectors" /\ ret.error = "ValueError"
  /\ ret.n_embeddings > ret.n_metadata
  /\ Len(index) >= 1 /\ disk_index.exists

\* ======================================================== chunker claims
Range(f) == {f[i] : i \in DOMAIN f}

\* C9: for a text of N words, N > words_per_chunk, chunked with
\* step = words_per_chunk - words_overlap >= 1 (words_overlap >= 0), chunk i
\* is the words [i*step, min(i*step + words_per_chunk, N)) joined by single
\* spaces, the last chunk being the first whose window end reaches N; every
\* chunk but the last has words_per_chunk words, consecutive chunks share
\* exactly words_overlap words, the chunks cover all words, chunk_index runs
\* 0..count-1 and total_chunks is the count on every chunk.
C9_SlidingWindows ==
  LET N == Len(run.words)
      wpc == chunker.words_per_chunk
      ovl == chunker.words_overlap
      step == wpc - ovl
      count == Len(run.chunks)
      W(i) == Split(run.chunks[i + 1].text)
      end(i) == IF i * step + wpc <= N THEN i * step + wpc ELSE N
  IN (run.pc = "done" /\ N > wpc /\ step >= 1) =>
       /\ count >= 1
       /\ \A i \in 0..count - 1 :
            /\ W(i) = SubSeq(run.words, i * step + 1, end(i))
            /\ run.chunks[i + 1].text = JoinSpaces(W(i))
            /\ run.chunks[i + 1].chunk_index = i
            /\ run.chunks[i + 1].total_chunks = count
       /\ \A i \in 0..count - 2 : i * step + wpc < N
       /\ (count - 1) * step + wpc >= N
       /\ \A i \in 0..count - 2 :
            /\ Len(W(i)) = wpc
            /\ Cardinality(Range(W(i)) \cap Range(W(i + 1))) = ovl
            /\ SubSeq(W(i), wpc - ovl + 1, wpc) = SubSeq(W(i + 1), 1, ovl)
       /\ UNION {Range(W(i)) : i \in 0..count - 1} = Range(run.words)

\* The end-to-end example: 1000 words, 375 words per chunk, 75 words of overlap
\* give the windows [0,375), [300,675), [600,975), [900,1000).
C9_Witness ==
  /\ run.pc = "done"
  /\ Len(run.words) = 1000
  /\ chunker.words_per_chunk = 375 /\ chunker.words_overlap = 75
  /\ Len(run.chunks) = 4
  /\ Split(run.chunks[1].text) = SubSeq(run.words, 1, 375)
  /\ Split(run.chunks[2].text) = SubSeq(run.words, 301, 675)
  /\ Split(run.chunks[3].text) = SubSeq(run.words, 601, 975)
  /\ Split(run.chunks[4].text) = SubSeq(run.words, 901, 1000)
  /\ \A i \in 1..4 : run.chunks[i].total_chunks = 4

\* C10 (as claimed): no chunker that construction accepts has
\* words_per_chunk - words_overlap < 1, so every pass of the sliding-window
\* loop that does not end it moves the window start forward.
C10_LoopAlwaysAdvances ==
  [][(run.pc = "loop" /\ run'.pc = "loop") => run'.start_idx > run.start_idx]_vars

\* C11: a text of N <= words_per_chunk words gives exactly one chunk, with
\* chunk_index 0 and total_chunks 1, whose text is the input with every run of
\* whitespace collapsed to one space and the ends trimmed: the words of the
\* input, in order, with a single space between neighbours.
C11_ShortTextIsOneChunk ==
  (run.pc = "done" /\ Len(Split(run.text)) <= chunker.words_per_chunk) =>
     /\ Len(run.chunks) = 1
     /\ run.chunks[1].chunk_index = 0
     /\ run.chunks[1].total_chunks = 1
     /\ run.chunks[1].text = JoinSpaces(Split(run.text))
     /\ \A i \in 1..Len(run.chunks[1].text) :
          IsSpace(run.chunks[1].text[i]) =>
            /\ run.chunks[1].text[i] = " "
            /\ 1 < i /\ i < Len(run.chunks[1].text)
            /\ ~IsSpace(run.chunks[1].text[i + 1])

\* A text with leading, doubled and trailing whitespace around several words
\* came back as one chunk.
C11_Witness ==
  /\ run.pc = "done"
  /\ Len(run.words) >= 2 /\ Len(run.words) <= chunker.words_per_chunk
  /\ Len(run.chunks) = 1
  /\ IsSpace(run.text[1]) /\ IsSpace(run.text[Len(run.text)])
  /\ run.chunks[1].text # run.text

\* C15: whenever the store holds zero vectors (freshly constructed, cleared,
\* or emptied by a delete), search returns the empty list for every query
\* vector, every top_k and every filter, and raises nothing.
C15_EmptyStoreSearchIsEmpty ==
  (status = "up" /\ ntotal(index) = 0) =>
     /\ \A q \in Queries, k \in TopKs, f \in Filters :
          SearchStore(index, metadata, q, k, f) = [error |-> "none", results |-> <<>>]
     /\ ret.op = "search" => ret.out = [error |-> "none", results |-> <<>>]

\* A filtered search ran on a store that was written to disk and is empty
\* again (after clear or an emptying delete).
C15_Witness ==
  /\ ret.op = "search"
  /\ ntotal(index) = 0
  /\ disk_index.exists /\ disk_meta.exists
  /\ Truthy(ret.filter)
  /\ ret.out.results = <<>>

\* C17: search treats the empty filter list exactly like an absent filter:
\* filter_filenames=[] returns what filter_filenames=None returns.
C17_EmptyFilterIsNoFilter ==
  (ret.op = "search" /\ ret.filter = FilterList({})) =>
     ret.out = SearchStore(index, metadata, ret.query, ret.top_k, NoFilter)

\* A search with the empty list returned chunks from a non-empty store.
C17_Witness ==
  /\ ret.op = "search"
  /\ ret.filter = FilterList({})
  /\ ret.filter # NoFilter
  /\ ret.out.error = "none"
  /\ Len(ret.out.results) >= 1

\* ======================================================= endpoint claims
\* What search returns for the query request whose response is `r`, on the
\* store as it is.
SearchOf(r) ==
  SearchStore(index, metadata, EmbedQuery(r.question), r.top_k, r.active_files)

\* C12: whenever search returns no chunks, RAGPipeline.query returns the fixed
\* "no relevant information found" answer with an empty source list, and the
\* generation service is not contacted during that query.
C12_NoMatchSkipsGeneration ==
  (/\ ret.op = "query" /\ ret.status_code # 400
   /\ SearchOf(ret) = [error |-> "none", results |-> <<>>]) =>
     /\ ret.status_code = 200
     /\ ret.result.answer = "No relevant information found in the indexed documents."
     /\ ret.result.sources = <<>>
     /\ ret.body.sources = <<>>
     /\ llm_posts = <<>>

\* A query on a store that holds vectors, none of them of a file of the
\* filter, was answered.
C12_Witness ==
  /\ ret.op = "query" /\ ret.status_code = 200
  /\ ntotal(index) >= 1
  /\ Truthy(ret.active_files)
  /\ SearchOf(ret).results = <<>>
  /\ ret.result.sources = <<>>
  /\ llm_posts = <<>>

\* C13: whenever search returns at least one chunk and the call to the
\* generation service fails (connection failure, timeout, non-2xx response),
\* RAGPipeline.query raises nothing and returns a non-empty answer together
\* with the full source list exactly as search returned it, in the same order.
C13_GenerationFailureFallsBack ==
  (/\ ret.op = "query" /\ ret.status_code # 400
   /\ SearchOf(ret).error = "none" /\ Len(SearchOf(ret).results) >= 1
   /\ \E i \in 1..Len(llm_posts) : LlmFailed(llm_posts[i].outcome)) =>
     /\ ret.status_code = 200
     /\ ret.result.answer # ""
     /\ ret.result.sources = SearchOf(ret).results
     /\ ret.body.answer = ret.result.answer
     /\ Len(ret.body.sources) = Len(ret.result.sources)

\* A query that retrieved two chunks was answered although the post to the
\* generation service timed out.
C13_Witness ==
  /\ ret.op = "query" /\ ret.status_code = 200
  /\ Len(llm_posts) = 1 /\ llm_posts[1].outcome.raised = "Timeout"
  /\ Len(ret.result.sources) = 2
  /\ ret.result.sources = SearchOf(ret).results
  /\ ret.result.answer = FallbackAnswer(llm_posts[1].prompt)

\* C14: a request rejected with a validation error (blank question,
\* unsupported upload extension, upload whose extracted text is blank) changes
\* neither the vector store, in memory and on disk, nor the uploads directory.
C14_ValidationErrorMutatesNothing ==
  [][(ret = Idle /\ ret'.op \in {"upload", "query"} /\ ret'.status_code = 400)
       => UNCHANGED <<index, metadata, disk_index, disk_meta, uploads>>]_vars

\* C16: whenever the upload endpoint answers with an error, the in-memory
\* index and metadata are the same as before the request.
C16_FailedUploadLeavesStore ==
  [][(ret = Idle /\ ret'.op = "upload" /\ ret'.status_code >= 400)
       => UNCHANGED <<index, metadata>>]_vars

====
